---------------------------- MODULE Spec2Model ----------------------------
(***************************************************************************)
(* Smart Buy Assistant (easy-shop): the content-script Extractor, the      *)
(* background Suggestion Service and the popup Orchestrator.               *)
(*                                                                         *)
(* JavaScript strings are sequences of one-character strings, so that      *)
(* trim(), replace(), match(), split() and includes() are computed on the  *)
(* characters.  A JavaScript value that may be null/undefined is a         *)
(* sequence of length at most one: <<>> is null, <<v>> is the value v.     *)
(***************************************************************************)
EXTENDS Integers, Sequences, FiniteSets, TLC

VARIABLES
  \* ---- content script (src/easy-shop/content.js:1-91)
  page,        \* the DOM snapshot of the open tab
  xmsg,        \* the message handed to the content script's listener
  xpc,         \* "idle" | "pending" | "responded" | "ignored" | "crashed"
  xresp,       \* <<>>: sendResponse not called; <<v>>: sendResponse(v)
  \* ---- suggestion rendering (src/easy-shop/popup.js:296-310, 542-546)
  rlines,      \* the lines of the text handed to renderSuggestions
  rcopy,       \* which copy of popup.js renders: 1 or 2
  rpc,         \* "ready" | "done"
  ritems,      \* the suggestion items rendered
  \* ---- popup (src/easy-shop/popup.js)
  copy,              \* which copy of popup.js is loaded: 1 (1-374) or 2 (375-584)
  apiKey,            \* GEMINI_API_KEY of the first copy: None while undeclared
  isTrackingEnabled,
  history,
  storage,           \* chrome.storage.local: [tracking, hist]
  clock,             \* the history insertions so far: the n-th insertion is stamped n
                     \* (Date.now() does not decrease from one insertion to the next)
  currentState,      \* "initial" | "loading" | "results" | "error" (first copy)
  loadingShown,      \* loadingDiv is displayed
  analyzeDisabled,   \* analyzeBtn.disabled
  outputDiv,         \* the blocks of outputDiv.innerHTML, in order
  runs,              \* the invocations of analyzeProduct, in the order of their start
  ended,             \* the invocation that returned in the latest popup event, with
                     \* its outcome and the message of the error caught, if any
  \* ---- background worker (src/easy-shop/content.js:94-171)
  bg                 \* bg[i]: handleAnalyze for the request of run i

xvars == <<page, xmsg, xpc, xresp>>
rvars == <<rlines, rcopy, rpc, ritems>>
pvars == <<copy, apiKey, isTrackingEnabled, history, storage, clock, currentState,
           loadingShown, analyzeDisabled, outputDiv, runs, ended>>

(***************************************************************************)
(* Strings                                                                 *)
(***************************************************************************)
None == <<>>
Some(v) == <<v>>
Null == <<>>

Digits == {"0", "1", "2", "3", "4", "5", "6", "7", "8", "9"}

\* the characters String.prototype.trim() strips that occur in the model
IsSpace(c) == c \in {" ", "\t", "\n", "\r"}

SetMin(S) == CHOOSE x \in S : \A y \in S : x <= y
SetMax(S) == CHOOSE x \in S : \A y \in S : y <= x

\* s.trim()
Trim(s) ==
  IF \A i \in 1..Len(s) : IsSpace(s[i]) THEN <<>>
  ELSE LET first == CHOOSE i \in 1..Len(s) :
                      ~IsSpace(s[i]) /\ \A j \in 1..(i - 1) : IsSpace(s[j])
           last == CHOOSE i \in 1..Len(s) :
                     ~IsSpace(s[i]) /\ \A j \in (i + 1)..Len(s) : IsSpace(s[j])
       IN  SubSeq(s, first, last)

\* s.includes(p)
Includes(s, p) ==
  \/ p = <<>>
  \/ \E i \in 1..(Len(s) - Len(p) + 1) : s[i] = p[1] /\ SubSeq(s, i, i + Len(p) - 1) = p

\* s.startsWith(p)
StartsWith(s, p) == Len(s) >= Len(p) /\ SubSeq(s, 1, Len(p)) = p

\* a || b on strings: the empty string is falsy
OrElse(a, b) == IF a # <<>> THEN a ELSE b

\* el?.innerText.trim() for an element that may be absent: undefined when absent
TrimOpt(el) == IF el = None THEN <<>> ELSE Trim(el[1])

(***************************************************************************)
(* Extractor: src/easy-shop/content.js                                     *)
(***************************************************************************)
AmazonUrl  == <<"h", "t", "t", "p", "s", ":", "/", "/", "w", "w", "w", ".", "a", "m", "a", "z", "o", "n", ".", "c", "o", "m", "/", "d", "p", "/", "B", "0", "1">>
EbayUrl    == <<"h", "t", "t", "p", "s", ":", "/", "/", "w", "w", "w", ".", "e", "b", "a", "y", ".", "c", "o", "m", "/", "i", "t", "m", "/", "1">>
EbayRefUrl == <<"h", "t", "t", "p", "s", ":", "/", "/", "w", "w", "w", ".", "e", "b", "a", "y", ".", "c", "o", "m", "/", "i", "t", "m", "/", "1", "?", "r", "e", "f", "=", "a", "m", "a", "z", "o", "n", ".", "c", "o", "m">>
WalmartUrl == <<"h", "t", "t", "p", "s", ":", "/", "/", "w", "w", "w", ".", "w", "a", "l", "m", "a", "r", "t", ".", "c", "o", "m", "/", "i", "p", "/", "2">>
OtherUrl   == <<"h", "t", "t", "p", "s", ":", "/", "/", "s", "h", "o", "p", ".", "e", "x", "a", "m", "p", "l", "e", "/", "p", "/", "3">>

\* fraction.replace(/[^0-9]/g, '')
DigitsOnly(s) == SelectSeq(s, LAMBDA c : c \in Digits)

\* price = (whole || fraction) ? `${whole}${fraction ? '.' + fraction.replace(...) : ''}` : ''
AmazonPrice(whole, fraction) ==
  IF whole # <<>> \/ fraction # <<>>
  THEN whole \o (IF fraction # <<>> THEN <<".">> \o DigitsOnly(fraction) ELSE <<>>)
  ELSE <<>>

\* document.title.replace(/ - .*$/, ''): the titles of the model hold no line
\* terminator, so the match runs from the first " - " to the end
StripSuffix(t) ==
  LET idx == {i \in 1..(Len(t) - 2) : SubSeq(t, i, i + 2) = <<" ", "-", " ">>}
  IN  IF idx = {} THEN t ELSE SubSeq(t, 1, SetMin(idx) - 1)

IsDigitOrComma(c) == c \in Digits \cup {","}

\* s.match(/\$[\d,]+\.?\d{0,2}/): None when there is no match, else match[0]
MatchPrice(s) ==
  LET starts == {i \in 1..(Len(s) - 1) : s[i] = "$" /\ IsDigitOrComma(s[i + 1])}
  IN  IF starts = {} THEN None
      ELSE
        LET i == SetMin(starts)
            runEnd == SetMax({j \in (i + 1)..Len(s) :
                                \A k \in (i + 1)..j : IsDigitOrComma(s[k])})
            dotEnd == IF runEnd < Len(s) /\ s[runEnd + 1] = "." THEN runEnd + 1 ELSE runEnd
            nd == IF dotEnd < Len(s) /\ s[dotEnd + 1] \in Digits
                  THEN (IF dotEnd + 1 < Len(s) /\ s[dotEnd + 2] \in Digits THEN 2 ELSE 1)
                  ELSE 0
        IN  Some(SubSeq(s, i, dotEnd + nd))

\* findPrice(): the first text node, in document order, that matches
RECURSIVE findPrice(_)
findPrice(nodes) ==
  IF nodes = <<>> THEN <<>>
  ELSE LET m == MatchPrice(Head(nodes))
       IN  IF m # None THEN m[1] ELSE findPrice(Tail(nodes))

\* a faulty normalization: the thousands separator survives
CleanPrice_KeepSeparators(price) == SelectSeq(price, LAMBDA c : c \in Digits \cup {".", ","})

\* price = (price || '').toString().replace(/[^0-9.]/g, '')
CleanPrice(price) == SelectSeq(price, LAMBDA c : c \in Digits \cup {"."})

\* which branch of the if/else-if chain the url selects
Strategy(url) ==
  IF Includes(url, <<"a", "m", "a", "z", "o", "n", ".", "c", "o", "m">>) THEN "amazon"
  ELSE IF Includes(url, <<"e", "b", "a", "y", ".", "c", "o", "m">>) THEN "ebay"
  ELSE IF Includes(url, <<"w", "a", "l", "m", "a", "r", "t", ".", "c", "o", "m">>) THEN "walmart"
  ELSE "generic"

\* a DOM access of the page throws: window.location.href, a querySelector of
\* the selected branch, or the tree walk of findPrice (generic branch only)
DomThrows(p) ==
  \/ p.throwsAt \in {"href", "query"}
  \/ p.throwsAt = "walker" /\ Strategy(p.url) = "generic"

PageTitle(p) ==
  CASE Strategy(p.url) = "amazon"  -> OrElse(TrimOpt(p.title1), <<>>)
    [] Strategy(p.url) = "ebay"    -> OrElse(OrElse(TrimOpt(p.title1), TrimOpt(p.title2)), <<>>)
    [] Strategy(p.url) = "walmart" -> OrElse(TrimOpt(p.title1), <<>>)
    [] OTHER                       -> OrElse(TrimOpt(p.title1), StripSuffix(p.docTitle))

PagePrice(p) ==
  CASE Strategy(p.url) = "amazon"  ->
         AmazonPrice(OrElse(TrimOpt(p.whole), <<>>), OrElse(TrimOpt(p.fraction), <<>>))
    [] Strategy(p.url) = "ebay"    -> OrElse(TrimOpt(p.priceEl), <<>>)
    [] Strategy(p.url) = "walmart" -> OrElse(TrimOpt(p.priceEl), <<>>)
    [] OTHER                       -> findPrice(p.textNodes)

\* el?.src || el2?.src || ''
PageImage(p) ==
  LET a == IF p.image = None THEN <<>> ELSE p.image[1]
      b == IF p.image2 = None THEN <<>> ELSE p.image2[1]
  IN  IF Strategy(p.url) = "amazon" THEN OrElse(OrElse(a, b), <<>>) ELSE OrElse(a, <<>>)

\* the outcome of a call: exc is TRUE when it threw, else val is what it returned
Returned(v) == [exc |-> FALSE, val |-> v]
Threw == [exc |-> TRUE, val |-> Null]

\* a faulty body: the validity check of line 58 is missing
TryBody_NoValidity(p) ==
  IF DomThrows(p) THEN Threw
  ELSE Returned(Some([title |-> PageTitle(p), price |-> CleanPrice(PagePrice(p)),
                      image |-> PageImage(p), url |-> p.url]))

\* the body of extractProduct's try block
TryBody(p) ==
  IF DomThrows(p) THEN Threw
  ELSE
    LET title == PageTitle(p)
        price == CleanPrice(PagePrice(p))
    IN  IF title = <<>> \/ price = <<>> THEN Returned(Null)
        ELSE Returned(Some([title |-> title, price |-> price,
                            image |-> PageImage(p), url |-> p.url]))

\* a faulty extractProduct: no catch around the body
extractProduct_NoCatch(p) == TryBody(p)

\* extractProduct(): try { ... } catch (err) { console.error(...); return null; }
extractProduct(p) ==
  LET r == TryBody(p)
  IN  IF r.exc THEN Returned(Null) ELSE r

(***************************************************************************)
(* The pages the Extractor is run on                                       *)
(***************************************************************************)
ThrowPoints == {"none", "href", "query", "walker"}

TitleEls == {None, Some(<<" ", " ">>), Some(<<" ", "T", "V", " ">>)}

PriceEls ==
  {None, Some(<<" ">>), Some(<<"$", "1", ",", "2", "3", "4", ".", "5", "6">>), Some(<<"U", "S", " ", "$", "5", ".", "0", "0", "/", "e", "a">>), Some(<<"F", "r", "e", "e">>)}

AmazonPages ==
  {[url |-> u, throwsAt |-> t, title1 |-> ti, title2 |-> None, docTitle |-> <<>>,
    whole |-> w, fraction |-> f, priceEl |-> None, textNodes |-> <<>>,
    image |-> im, image2 |-> Some(<<"b", ".", "p", "n", "g">>)] :
     u \in {AmazonUrl, EbayRefUrl}, t \in ThrowPoints, ti \in TitleEls,
     w \in {None, Some(<<>>), Some(<<"$", "1", ",", "2", "3", "4">>), Some(<<"1", "9", ".">>)},
     f \in {None, Some(<<"5", "6">>), Some(<<"9", "x">>), Some(<<"x", "x">>)},
     im \in {None, Some(<<"a", ".", "p", "n", "g">>)}}

EbayPages ==
  {[url |-> EbayUrl, throwsAt |-> t, title1 |-> ti, title2 |-> t2, docTitle |-> <<>>,
    whole |-> None, fraction |-> None, priceEl |-> pe, textNodes |-> <<>>,
    image |-> None, image2 |-> None] :
     t \in ThrowPoints, ti \in {None, Some(<<" ", "T", "V", " ">>)},
     t2 \in {None, Some(<<" ">>), Some(<<"L", "o", "t">>)}, pe \in PriceEls}

WalmartPages ==
  {[url |-> WalmartUrl, throwsAt |-> t, title1 |-> ti, title2 |-> None, docTitle |-> <<>>,
    whole |-> None, fraction |-> None, priceEl |-> pe, textNodes |-> <<>>,
    image |-> Some(<<"w", ".", "p", "n", "g">>), image2 |-> None] :
     t \in ThrowPoints, ti \in TitleEls, pe \in PriceEls}

TextNodeLists ==
  {<<>>,
   <<<<"W", "e", "l", "c", "o", "m", "e">>>>,
   <<<<"C", "a", "r", "t", " ", "(", "0", ")">>, <<"N", "o", "w", " ", "$", "1", ",", "2", "3", "4", ".", "5", "6", " ", "o", "n", "l", "y">>, <<"w", "a", "s", " ", "$", "2", "0", "0", "0">>>>,
   <<<<"$", " ", "o", "f", "f">>, <<"s", "a", "v", "e", " ", "$", ",">>>>,
   <<<<"f", "r", "o", "m", " ", "$", "5", ".", "5", ".", "5">>>>,
   <<<<"$", "1", "9", ".", "9", "9", "9">>>>}

GenericPages ==
  {[url |-> OtherUrl, throwsAt |-> t, title1 |-> ti, title2 |-> None, docTitle |-> d,
    whole |-> None, fraction |-> None, priceEl |-> None, textNodes |-> tn,
    image |-> None, image2 |-> None] :
     t \in ThrowPoints, ti \in TitleEls,
     d \in {<<>>, <<"T", "V">>, <<"T", "V", " ", "-", " ", "S", "h", "o", "p", " ", "-", " ", "H", "o", "m", "e">>, <<" ", "-", " ", "H", "o", "m", "e">>},
     tn \in TextNodeLists}

Pages == AmazonPages \cup EbayPages \cup WalmartPages \cup GenericPages

(***************************************************************************)
(* The content script's message listener (content.js:9-15)                 *)
(***************************************************************************)
XActions == {"extractProduct", "analyzeWithAI"}

\* the popup sends a message to the tab
XSend(a) ==
  /\ xpc = "idle"
  /\ xmsg' = Some(a)
  /\ xpc' = "pending"
  /\ UNCHANGED <<page, xresp, rvars, pvars, bg>>

\* the listener runs: only 'extractProduct' is answered
XListener ==
  /\ xpc = "pending"
  /\ IF xmsg[1] = "extractProduct"
     THEN LET product == extractProduct(page)
          IN  IF product.exc
              THEN xpc' = "crashed" /\ xresp' = xresp
              ELSE xpc' = "responded" /\ xresp' = Some(product.val)
     ELSE xpc' = "ignored" /\ xresp' = xresp
  /\ UNCHANGED <<page, xmsg, rvars, pvars, bg>>

(***************************************************************************)
(* Suggestion rendering: popup.js renderSuggestions, both copies           *)
(***************************************************************************)
\* text.split('\n')
RECURSIVE Split(_)
Split(s) ==
  LET nl == {i \in 1..Len(s) : s[i] = "\n"}
  IN  IF nl = {} THEN <<s>>
      ELSE <<SubSeq(s, 1, SetMin(nl) - 1)>> \o Split(SubSeq(s, SetMin(nl) + 1, Len(s)))

\* /^\d+\./.test(t)
StartsNumbered(t) ==
  \E n \in 1..(Len(t) - 1) : (\A k \in 1..n : t[k] \in Digits) /\ t[n + 1] = "."

\* /^[-\u2022*]/.test(t): the bullet glyph U+2022 is the one-character string "U+2022"
StartsBullet(t) == t # <<>> /\ t[1] \in {"-", "U+2022", "*"}

\* a faulty filter: the length is taken of the trimmed line
LooksLikeItem_TrimmedLength(line) ==
  StartsNumbered(Trim(line)) \/ StartsBullet(Trim(line)) \/ Len(Trim(line)) > 10

\* the second filter of the first copy (popup.js:299-301)
LooksLikeItem(line) ==
  StartsNumbered(Trim(line)) \/ StartsBullet(Trim(line)) \/ Len(line) > 10

\* first copy (popup.js:296-310): the lines that become <div class="suggestion">
renderSuggestions(text) ==
  SelectSeq(SelectSeq(Split(text), LAMBDA line : Trim(line) # <<>>), LooksLikeItem)

\* the filter of the second copy (popup.js:543)
KeepsLine2(line) == Trim(line) # <<>> /\ ~StartsWith(line, <<"-">>)

\* second copy (popup.js:542-546)
renderSuggestions2(text) == SelectSeq(Split(text), KeepsLine2)

MaxLines == 2

RenderLines ==
  {<<"1", ".", " ", "T", "r", "y", " ", "X">>, <<"2", ".", " ", "T", "r", "y", " ", "Y">>, <<"-", " ", "a">>, <<"*", " ", "b">>, <<"U+2022", " ", "c">>, <<"a", "b", "c">>, <<>>,
   <<" ", " ">>, <<" ", "3", ".", " ", "z">>, <<" ", "-", " ", "y">>, <<"1", "2", "3", "4", "5", "6", "7", "8", "9", "0", "1">>, <<"1", "2", "3", "4", "5", "6", "7", "8", "9", "0">>, <<"1", "2", " ", "o", "k">>,
   <<"a", "b", " ", " ", " ", " ", " ", " ", " ", " ", " ">>}

RECURSIVE Join(_)
Join(lines) ==
  IF Len(lines) = 1 THEN lines[1]
  ELSE lines[1] \o <<"\n">> \o Join(Tail(lines))

LineLists == UNION {[1..n -> RenderLines] : n \in 1..MaxLines}

\* renderSuggestions(text) is called with the lines joined by newlines
Render ==
  /\ rpc = "ready"
  /\ ritems' = IF rcopy = 1 THEN renderSuggestions(Join(rlines))
               ELSE renderSuggestions2(Join(rlines))
  /\ rpc' = "done"
  /\ UNCHANGED <<rlines, rcopy, xvars, pvars, bg>>

(***************************************************************************)
(* Error messages.  Those of the browser are inputs; the others are the    *)
(* literals of content.js and popup.js.                                    *)
(***************************************************************************)
\* `${n}` for a number n >= 0
RECURSIVE ToStr(_)
ToStr(n) ==
  LET d == <<"0", "1", "2", "3", "4", "5", "6", "7", "8", "9">>
  IN  IF n < 10 THEN <<d[n + 1]>> ELSE ToStr(n \div 10) \o <<d[(n % 10) + 1]>>

\* thrown by the engine when an undeclared identifier is read (popup.js:161)
MsgKeyUndeclared == <<"G", "E", "M", "I", "N", "I", "_", "A", "P", "I", "_", "K", "E", "Y", " ", "i", "s", " ", "n", "o", "t", " ", "d", "e", "f", "i", "n", "e", "d">>
MsgKeyNotConfigured == <<"A", "P", "I", " ", "k", "e", "y", " ", "n", "o", "t", " ", "c", "o", "n", "f", "i", "g", "u", "r", "e", "d", ".", " ", "P", "l", "e", "a", "s", "e", " ", "c", "h", "e", "c", "k", " ", "y", "o", "u", "r", " ", ".", "e", "n", "v", " ", "f", "i", "l", "e", ".">>
MsgNoTab == <<"N", "o", " ", "a", "c", "t", "i", "v", "e", " ", "t", "a", "b", " ", "f", "o", "u", "n", "d", ".">>
\* thrown by the engine for tab.id when chrome.tabs.query found no tab
MsgTabUndefined == <<"C", "a", "n", "n", "o", "t", " ", "r", "e", "a", "d", " ", "p", "r", "o", "p", "e", "r", "t", "i", "e", "s", " ", "o", "f", " ", "u", "n", "d", "e", "f", "i", "n", "e", "d", " ", "(", "r", "e", "a", "d", "i", "n", "g", " ", "'", "i", "d", "'", ")">>
MsgNoProduct == <<"N", "o", " ", "p", "r", "o", "d", "u", "c", "t", " ", "d", "e", "t", "e", "c", "t", "e", "d", ".", " ", "T", "r", "y", " ", "a", "n", " ", "e", "-", "c", "o", "m", "m", "e", "r", "c", "e", " ", "s", "i", "t", "e", " ", "l", "i", "k", "e", " ", "A", "m", "a", "z", "o", "n", ",", " ", "e", "B", "a", "y", ",", " ", "o", "r", " ", "W", "a", "l", "m", "a", "r", "t", ".">>
MsgNoProduct2 == <<"N", "o", " ", "p", "r", "o", "d", "u", "c", "t", " ", "d", "e", "t", "e", "c", "t", "e", "d", " ", "o", "n", " ", "t", "h", "i", "s", " ", "p", "a", "g", "e", ".", " ", "T", "r", "y", " ", "a", "n", " ", "e", "-", "c", "o", "m", "m", "e", "r", "c", "e", " ", "s", "i", "t", "e", " ", "l", "i", "k", "e", " ", "A", "m", "a", "z", "o", "n", ".">>
\* chrome.tabs.sendMessage / chrome.runtime.sendMessage with no listener
MsgNoReceiver == <<"C", "o", "u", "l", "d", " ", "n", "o", "t", " ", "e", "s", "t", "a", "b", "l", "i", "s", "h", " ", "c", "o", "n", "n", "e", "c", "t", "i", "o", "n", ".", " ", "R", "e", "c", "e", "i", "v", "i", "n", "g", " ", "e", "n", "d", " ", "d", "o", "e", "s", " ", "n", "o", "t", " ", "e", "x", "i", "s", "t", ".">>
\* chrome.storage.local.set rejected
MsgStorage == <<"Q", "U", "O", "T", "A", "_", "B", "Y", "T", "E", "S", " ", "q", "u", "o", "t", "a", " ", "e", "x", "c", "e", "e", "d", "e", "d">>
MsgNoResponse == <<"N", "o", " ", "r", "e", "s", "p", "o", "n", "s", "e", " ", "f", "r", "o", "m", " ", "b", "a", "c", "k", "g", "r", "o", "u", "n", "d">>
MsgNotSignedIn == <<"N", "o", "t", " ", "s", "i", "g", "n", "e", "d", " ", "i", "n", ".", " ", "P", "l", "e", "a", "s", "e", " ", "s", "i", "g", "n", " ", "i", "n", " ", "w", "i", "t", "h", " ", "G", "o", "o", "g", "l", "e", " ", "t", "o", " ", "e", "n", "a", "b", "l", "e", " ", "A", "I", " ", "s", "u", "g", "g", "e", "s", "t", "i", "o", "n", "s", ".">>
\* fetch() rejected
MsgFetchFailed == <<"F", "a", "i", "l", "e", "d", " ", "t", "o", " ", "f", "e", "t", "c", "h">>
\* resp.json() rejected
MsgJsonParse == <<"U", "n", "e", "x", "p", "e", "c", "t", "e", "d", " ", "e", "n", "d", " ", "o", "f", " ", "J", "S", "O", "N", " ", "i", "n", "p", "u", "t">>
MsgUnexpected == <<"U", "n", "e", "x", "p", "e", "c", "t", "e", "d", " ", "A", "P", "I", " ", "r", "e", "s", "p", "o", "n", "s", "e", " ", "f", "o", "r", "m", "a", "t">>
MsgUnexpected2 == <<"U", "n", "e", "x", "p", "e", "c", "t", "e", "d", " ", "A", "P", "I", " ", "r", "e", "s", "p", "o", "n", "s", "e", "U+2014", "t", "r", "y", " ", "a", " ", "f", "r", "e", "s", "h", " ", "k", "e", "y", ".">>

\* `API error ${resp.status}: ${text}` (content.js:155)
ApiError(status, text) == <<"A", "P", "I", " ", "e", "r", "r", "o", "r", " ">> \o ToStr(status) \o <<":", " ">> \o text

\* `API error: ${response.status} (${errText}) - Check key/limits at aistudio.google.com`
ApiError2(status, text) ==
  <<"A", "P", "I", " ", "e", "r", "r", "o", "r", ":", " ">> \o ToStr(status) \o <<" ", "(">> \o text
    \o <<")", " ", "-", " ", "C", "h", "e", "c", "k", " ", "k", "e", "y", "/", "l", "i", "m", "i", "t", "s", " ", "a", "t", " ", "a", "i", "s", "t", "u", "d", "i", "o", ".", "g", "o", "o", "g", "l", "e", ".", "c", "o", "m">>

(***************************************************************************)
(* Suggestion Service: the background worker (content.js:97-171)           *)
(***************************************************************************)
\* a response object: a field that is absent is None
SuggestionsResponse(text) == [suggestions |-> Some(text), error |-> None]
ErrorResponse(msg) == [suggestions |-> None, error |-> Some(msg)]

\* a faulty listener: an error response that also carries suggestions
Settle_BothFields(outcome) ==
  IF outcome.exc THEN [suggestions |-> Some(<<>>), error |-> Some(outcome.val)]
  ELSE SuggestionsResponse(outcome.val)

\* handleAnalyze(...).then(result => sendResponse({ suggestions: result }))
\*                   .catch(err => sendResponse({ error: err.message }))
\* outcome: Returned(text) when the promise fulfilled, [exc |-> TRUE, val |-> msg]
\* when it rejected with an Error of message msg
Settle(outcome) ==
  IF outcome.exc THEN ErrorResponse(outcome.val) ELSE SuggestionsResponse(outcome.val)

Rejected(msg) == [exc |-> TRUE, val |-> msg]

\* getTokenSilent's callback: if (chrome.runtime.lastError || !token) resolve(null)
getTokenSilent(lastError, token) ==
  IF lastError \/ token = None \/ token = Some(<<>>) THEN Null ELSE token

\* data?.candidates?.[0]?.content?.parts?.[0]?.text of a parsed body; a body is
\* None when a link of the chain is missing, else Some(text)
CandidateText(data) == IF data = None THEN <<>> ELSE data[1]

\* content.js:158-161, given the parsed body
AfterJson(data) ==
  IF CandidateText(data) = <<>> THEN Rejected(MsgUnexpected)
  ELSE Returned(Trim(CandidateText(data)))

\* the callback of callBackgroundAI (popup.js:220-225): lastError is None or
\* Some(message), response is None or Some(response object); a field that is
\* absent or the empty string is falsy
callBackgroundAI(lastError, response) ==
  IF lastError # None THEN Rejected(lastError[1])
  ELSE IF response = None THEN Rejected(MsgNoResponse)
  ELSE IF response[1].error # None /\ response[1].error[1] # <<>>
       THEN Rejected(response[1].error[1])
  ELSE Returned(IF response[1].suggestions = None THEN <<>> ELSE response[1].suggestions[1])

\* what the browser and the generation endpoint hand to one run of
\* handleAnalyze: the getAuthToken callback (lastError, token), the fetch
\* (None when it rejects, else Some(status)), the error body read by
\* resp.text(), and resp.json() (parsed is FALSE when it rejects, else data is
\* the parsed body)
Env(le, tok, f, b, parsed, d) ==
  [lastError |-> le, token |-> tok, fetch |-> f, body |-> b, parsed |-> parsed, data |-> d]

\* handleAnalyze(product) as a function of what it is handed: Returned(text)
\* when it fulfils, Rejected(message) when it throws (content.js:130-162)
handleAnalyze(env) ==
  IF getTokenSilent(env.lastError, env.token) = Null THEN Rejected(MsgNotSignedIn)
  ELSE IF env.fetch = None THEN Rejected(MsgFetchFailed)
  ELSE IF env.fetch[1] \notin 200..299 THEN Rejected(ApiError(env.fetch[1], env.body))
  ELSE IF ~env.parsed THEN Rejected(MsgJsonParse)
  ELSE AfterJson(env.data)

\* ---- inputs of the background worker
Tokens == {None, Some(<<"y", "a", "2", "9">>)}
HttpStatuses == {200, 500}
ErrorBodies == {<<"q", "u", "o", "t", "a">>}
\* parsed bodies: no candidate text, an empty text, a blank text, a list
JsonBodies == {None, Some(<<>>), Some(<<" ", " ">>), Some(<<"1", ".", " ", "T", "r", "y", " ", "X", "\n", "2", ".", " ", "T", "r", "y", " ", "Y">>)}

NoEnv == Env(FALSE, None, None, <<>>, FALSE, None)

\* what the popup's requests are handed: one Env for each path through
\* handleAnalyze (no token; fetch rejects; a non-2xx status; resp.json()
\* rejects; no candidate text; a candidate text); the fields a path does not
\* read keep the values of NoEnv
WorkerEnvs ==
  LET tok == Some(<<"y", "a", "2", "9">>)
  IN  {NoEnv,
       Env(FALSE, tok, None, <<>>, FALSE, None),
       Env(FALSE, tok, Some(500), <<"q", "u", "o", "t", "a">>, FALSE, None),
       Env(FALSE, tok, Some(200), <<>>, FALSE, None),
       Env(FALSE, tok, Some(200), <<>>, TRUE, None),
       Env(FALSE, tok, Some(200), <<>>, TRUE, Some(<<"1", ".", " ", "T", "r", "y", " ", "X", "\n", "2", ".", " ", "T", "r", "y", " ", "Y">>))}

\* the worker's side of one analyzeWithAI exchange: where handleAnalyze is
\* suspended, what it was handed so far, the fetch calls it issued, the
\* responses it sent, and how the popup's callBackgroundAI promise settled
NewBg == [pc |-> "sent", env |-> NoEnv, fetches |-> 0, responses |-> <<>>, cb |-> None]

MaxRequests == 2

BgSet(i, r) == bg' = [bg EXCEPT ![i] = r]

\* sendResponse(resp) of request i
BgRespond(i, e, resp) ==
  BgSet(i, [bg[i] EXCEPT !.pc = "responded", !.env = e, !.responses = Append(@, resp)])

\* the popup's callBackgroundAI sends { action: 'analyzeWithAI', product }
\* (popup.js:218-220); requests of overlapping analyses are in flight together
SendRequest ==
  /\ Len(bg) < MaxRequests
  /\ bg' = Append(bg, NewBg)
  /\ UNCHANGED <<xvars, rvars, pvars>>

\* chrome.runtime.sendMessage finds no listener: the popup's callback will see
\* chrome.runtime.lastError
BgUnreachable(i) ==
  /\ bg[i].pc = "sent"
  /\ BgSet(i, [bg[i] EXCEPT !.pc = "unreachable"])
  /\ UNCHANGED <<xvars, rvars, pvars>>

\* the listener takes 'analyzeWithAI': handleAnalyze starts and awaits
\* getTokenSilent() (content.js:97-101, 130-132)
BgListener(i) ==
  /\ bg[i].pc = "sent"
  /\ BgSet(i, [bg[i] EXCEPT !.pc = "getToken"])
  /\ UNCHANGED <<xvars, rvars, pvars>>

\* a faulty handleAnalyze: the token is not checked before the fetch
BgToken_NoCheck(i, lastError, token) ==
  /\ bg[i].pc = "getToken"
  /\ BgSet(i, [bg[i] EXCEPT !.pc = "fetching", !.fetches = @ + 1,
                 !.env = [@ EXCEPT !.lastError = lastError, !.token = token]])
  /\ UNCHANGED <<xvars, rvars, pvars>>

\* chrome.identity.getAuthToken calls back: throw without a token, else build
\* the prompt and call fetch (content.js:132-151, 164-171)
BgToken(i, lastError, token) ==
  /\ bg[i].pc = "getToken"
  /\ LET e == [bg[i].env EXCEPT !.lastError = lastError, !.token = token]
     IN  IF getTokenSilent(lastError, token) = Null
         THEN BgRespond(i, e, Settle(Rejected(MsgNotSignedIn)))
         ELSE BgSet(i, [bg[i] EXCEPT !.pc = "fetching", !.fetches = @ + 1, !.env = e])
  /\ UNCHANGED <<xvars, rvars, pvars>>

\* fetch() rejects
BgFetchFails(i) ==
  /\ bg[i].pc = "fetching"
  /\ BgRespond(i, [bg[i].env EXCEPT !.fetch = None], Settle(Rejected(MsgFetchFailed)))
  /\ UNCHANGED <<xvars, rvars, pvars>>

\* fetch() resolves with a response of the given status: resp.text() is awaited
\* when it is not ok, resp.json() when it is (content.js:153-158)
BgFetch(i, status) ==
  /\ bg[i].pc = "fetching"
  /\ BgSet(i, [bg[i] EXCEPT !.env = [@ EXCEPT !.fetch = Some(status)],
                 !.pc = IF status \in 200..299 THEN "readingJson" ELSE "readingError"])
  /\ UNCHANGED <<xvars, rvars, pvars>>

\* resp.text() resolves: throw new Error(`API error ${resp.status}: ${text}`)
BgErrorText(i, text) ==
  /\ bg[i].pc = "readingError"
  /\ BgRespond(i, [bg[i].env EXCEPT !.body = text],
               Settle(Rejected(ApiError(bg[i].env.fetch[1], text))))
  /\ UNCHANGED <<xvars, rvars, pvars>>

\* resp.json() rejects
BgJsonFails(i) ==
  /\ bg[i].pc = "readingJson"
  /\ BgRespond(i, [bg[i].env EXCEPT !.parsed = FALSE], Settle(Rejected(MsgJsonParse)))
  /\ UNCHANGED <<xvars, rvars, pvars>>

\* resp.json() resolves (content.js:158-161)
BgJson(i, data) ==
  /\ bg[i].pc = "readingJson"
  /\ BgRespond(i, [bg[i].env EXCEPT !.parsed = TRUE, !.data = data], Settle(AfterJson(data)))
  /\ UNCHANGED <<xvars, rvars, pvars>>

\* the popup's callback runs and settles the promise of callBackgroundAI
BgCallback(i) ==
  /\ bg[i].pc \in {"responded", "unreachable"}
  /\ bg[i].cb = None
  /\ BgSet(i, [bg[i] EXCEPT !.pc = "delivered",
                 !.cb = Some(IF bg[i].pc = "unreachable"
                             THEN callBackgroundAI(Some(MsgNoReceiver), None)
                             ELSE callBackgroundAI(None, Some(bg[i].responses[1])))])
  /\ UNCHANGED <<xvars, rvars, pvars>>

(***************************************************************************)
(* Orchestrator: the popup (popup.js, first copy 1-374, second copy        *)
(* 375-584)                                                                *)
(***************************************************************************)
HistoryCap == 50
MaxRuns == 2

Block(kind, title, price, items, text) ==
  [kind |-> kind, title |-> title, price |-> price, items |-> items, text |-> text]

\* outputDiv.innerHTML += <the product's markup>
renderProduct(out, data) ==
  Append(out, Block("product", data.title, data.price, <<>>, <<>>))

\* outputDiv.innerHTML += <one div per suggestion>, by the copy's renderSuggestions
renderSuggestionsTo(c, out, text) ==
  Append(out, Block("suggestions", <<>>, <<>>,
                    IF c = 1 THEN renderSuggestions(text) ELSE renderSuggestions2(text),
                    <<>>))

\* outputDiv.innerHTML = <div class="message success">msg</div>
showMessage(out, msg) == <<Block("message", <<>>, <<>>, <<>>, msg)>>

\* outputDiv.innerHTML = <div class="message error">msg</div>
showError(out, msg) == <<Block("error", <<>>, <<>>, <<>>, msg)>>

DemoProduct == [title |-> <<"D", "e", "m", "o", " ", "P", "r", "o", "d", "u", "c", "t", " ", "(", "A", "P", "I", " ", "E", "r", "r", "o", "r", ")">>, price |-> <<"2", "9", ".", "9", "9">>]
DemoProduct2 == [title |-> <<"D", "e", "m", "o", " ", "P", "r", "o", "d", "u", "c", "t">>, price |-> <<"N", "/", "A">>]

getDemoSuggestions ==
  <<"1", ".", " ", "C", "h", "e", "c", "k", " ", "e", "B", "a", "y", " ", "f", "o", "r", " ", "s", "i", "m", "i", "l", "a", "r", " ", "i", "t", "e", "m", "s", " ", "-", " ", "O", "f", "t", "e", "n", " ", "2", "0", "-", "3", "0", "%", " ", "c", "h", "e", "a", "p", "e", "r", "\n", "2", ".", " ", "W", "a", "i", "t", " ", "f", "o", "r", " ", "A", "m", "a", "z", "o", "n", " ", "P", "r", "i", "m", "e", " ", "D", "a", "y", " ", "-", " ", "S", "i", "g", "n", "i", "f", "i", "c", "a", "n", "t", " ", "d", "i", "s", "c", "o", "u", "n", "t", "s", " ", "e", "x", "p", "e", "c", "t", "e", "d", "\n", "3", ".", " ", "C", "o", "m", "p", "a", "r", "e", " ", "a", "t", " ", "W", "a", "l", "m", "a", "r", "t", ".", "c", "o", "m", " ", "-", " ", "P", "r", "i", "c", "e", " ", "m", "a", "t", "c", "h", " ", "g", "u", "a", "r", "a", "n", "t", "e", "e", " ", "a", "v", "a", "i", "l", "a", "b", "l", "e", "\n", "4", ".", " ", "C", "o", "n", "s", "i", "d", "e", "r", " ", "r", "e", "f", "u", "r", "b", "i", "s", "h", "e", "d", " ", "o", "p", "t", "i", "o", "n", "s", " ", "-", " ", "S", "a", "v", "e", " ", "4", "0", "%", " ", "w", "i", "t", "h", " ", "w", "a", "r", "r", "a", "n", "t", "y", "\n", "5", ".", " ", "C", "h", "e", "c", "k", " ", "C", "a", "m", "e", "l", "C", "a", "m", "e", "l", "C", "a", "m", "e", "l", " ", "f", "o", "r", " ", "p", "r", "i", "c", "e", " ", "h", "i", "s", "t", "o", "r", "y", " ", "-", " ", "B", "u", "y", " ", "a", "t", " ", "o", "p", "t", "i", "m", "a", "l", " ", "t", "i", "m", "e">>

DemoSuggestions2 ==
  <<"D", "e", "m", "o", " ", "S", "u", "g", "g", "e", "s", "t", "i", "o", "n", " ", "1", ":", " ", "C", "h", "e", "a", "p", "e", "r", " ", "a", "l", "t", " ", "o", "n", " ", "e", "B", "a", "y", " ", "f", "o", "r", " ", "$", "1", "5", " ", "(", "b", "e", "t", "t", "e", "r", " ", "r", "e", "v", "i", "e", "w", "s", ")", ".", "\n", "D", "e", "m", "o", " ", "S", "u", "g", "g", "e", "s", "t", "i", "o", "n", " ", "2", ":", " ", "S", "i", "m", "i", "l", "a", "r", " ", "o", "n", " ", "W", "a", "l", "m", "a", "r", "t", ",", " ", "s", "a", "v", "e", " ", "2", "0", "%", " ", "w", "i", "t", "h", " ", "b", "u", "n", "d", "l", "e", ".">>

MsgDemoMode == <<"U+26A0", "U+FE0F", " ", "U", "s", "i", "n", "g", " ", "d", "e", "m", "o", " ", "m", "o", "d", "e", ".", " ", "C", "h", "e", "c", "k", " ", "y", "o", "u", "r", " ", "A", "P", "I", " ", "k", "e", "y", " ", "c", "o", "n", "f", "i", "g", "u", "r", "a", "t", "i", "o", "n", ".">>
MsgTrackingOn == <<"U+2713", " ", "T", "r", "a", "c", "k", "i", "n", "g", " ", "e", "n", "a", "b", "l", "e", "d", "U+2014", "y", "o", "u", "r", " ", "v", "i", "e", "w", "s", " ", "w", "i", "l", "l", " ", "i", "n", "f", "o", "r", "m", " ", "f", "u", "t", "u", "r", "e", " ", "s", "u", "g", "g", "e", "s", "t", "i", "o", "n", "s", ".">>
MsgTrackingOn2 == <<"T", "r", "a", "c", "k", "i", "n", "g", " ", "e", "n", "a", "b", "l", "e", "d", "U+2014", "y", "o", "u", "r", " ", "v", "i", "e", "w", "s", " ", "w", "i", "l", "l", " ", "i", "n", "f", "o", "r", "m", " ", "f", "u", "t", "u", "r", "e", " ", "s", "u", "g", "g", "e", "s", "t", "i", "o", "n", "s", ".">>
MsgTrackingOff == <<"T", "r", "a", "c", "k", "i", "n", "g", " ", "d", "i", "s", "a", "b", "l", "e", "d">>
MsgNoHistory == <<"N", "o", " ", "h", "i", "s", "t", "o", "r", "y", " ", "y", "e", "t", "U+2014", "b", "r", "o", "w", "s", "e", " ", "w", "i", "t", "h", " ", "t", "r", "a", "c", "k", "i", "n", "g", " ", "e", "n", "a", "b", "l", "e", "d", "!">>
MsgNoHistory2 == <<"N", "o", " ", "h", "i", "s", "t", "o", "r", "y", " ", "y", "e", "t", "U+2014", "b", "r", "o", "w", "s", "e", " ", "w", "i", "t", "h", " ", "t", "r", "a", "c", "k", "i", "n", "g", " ", "o", "n", "!">>

\* a faulty condition: any message that mentions the API takes the fallback
UsesDemo_AnyApiWord(c, msg) == Includes(msg, <<"A", "P", "I">>)

\* the condition of the catch block's fallback branch (popup.js:198, 473)
UsesDemo(c, msg) ==
  IF c = 1 THEN Includes(msg, <<"A", "P", "I", " ", "k", "e", "y">>) \/ Includes(msg, <<"A", "P", "I", " ", "e", "r", "r", "o", "r">>)
  ELSE Includes(msg, <<"D", "e", "m", "o", " ", "m", "o", "d", "e">>) \/ Includes(msg, <<"A", "P", "I", " ", "e", "r", "r", "o", "r">>)

\* what the catch block leaves in outputDiv (popup.js:197-209, 472-478)
CatchOutput(c, out, msg) ==
  IF c = 1
  THEN IF UsesDemo(c, msg)
       THEN showMessage(renderSuggestionsTo(c, renderProduct(out, DemoProduct),
                                            getDemoSuggestions), MsgDemoMode)
       ELSE showError(out, <<"A", "n", "a", "l", "y", "s", "i", "s", " ", "f", "a", "i", "l", "e", "d", ":", " ">> \o msg)
  ELSE IF UsesDemo(c, msg)
       THEN renderSuggestionsTo(c, renderProduct(out, DemoProduct2), DemoSuggestions2)
       ELSE showError(out, <<"A", "n", "a", "l", "y", "s", "i", "s", " ", "f", "a", "i", "l", "e", "d", ":", " ">> \o msg)

\* what the success path leaves in outputDiv (popup.js:188-189, 468-469)
ResultsOutput(c, out, product, suggestions) ==
  renderSuggestionsTo(c, renderProduct(out, product), suggestions)

\* const apiKey of the second copy (popup.js:391)
ApiKey2 == <<"A", "I", "z", "a", "Y", "o", "u", "r", "F", "r", "e", "e", "G", "e", "m", "i", "n", "i", "K", "e", "y", "F", "r", "o", "m", "E", "n", "v", "H", "e", "r", "e">>

\* the key check at the head of the try block: None when it passes, else the
\* message of the error thrown (popup.js:161-163; 441-443).  In the first copy
\* GEMINI_API_KEY is declared nowhere: reading it throws until saveApiKey has
\* assigned it.
KeyCheck(c, key) ==
  IF c = 1
  THEN IF key = None THEN Some(MsgKeyUndeclared)
       ELSE IF key[1] = <<>> \/ ~StartsWith(key[1], <<"A", "I", "z", "a">>) THEN Some(MsgKeyNotConfigured)
       ELSE None
  ELSE IF ApiKey2 = <<>> \/ ~StartsWith(ApiKey2, <<"A", "I", "z", "a">>)
       THEN Some(<<"D", "e", "m", "o", " ", "m", "o", "d", "e", ":", " ", "A", "P", "I", " ", "k", "e", "y", " ", "n", "o", "t", " ", "s", "e", "t", "U+2014", "u", "s", "i", "n", "g", " ", "m", "o", "c", "k", " ", "s", "u", "g", "g", "e", "s", "t", "i", "o", "n", "s", ".", " ", "(", "C", "h", "e", "c", "k", " ", "p", "o", "p", "u", "p", ".", "j", "s", " ", "f", "o", "r", " ", ".", "e", "n", "v", " ", "s", "w", "a", "p", ".", ")">>)
       ELSE None

\* a faulty insertion: push instead of unshift
AddToHistory_Append(h, product, now) ==
  LET e == [title |-> product.title, price |-> product.price, image |-> product.image,
            url |-> product.url, timestamp |-> now]
      h1 == Append(h, e)
  IN  SubSeq(h1, 1, IF Len(h1) < HistoryCap THEN Len(h1) ELSE HistoryCap)

\* a faulty cap: splice(51)
AddToHistory_CapOffByOne(h, product, now) ==
  LET e == [title |-> product.title, price |-> product.price, image |-> product.image,
            url |-> product.url, timestamp |-> now]
      h1 == <<e>> \o h
  IN  SubSeq(h1, 1, IF Len(h1) < HistoryCap + 1 THEN Len(h1) ELSE HistoryCap + 1)

\* history.unshift({ ...productData, timestamp: Date.now() }); history.splice(50)
AddToHistory(h, product, now) ==
  LET e == [title |-> product.title, price |-> product.price, image |-> product.image,
            url |-> product.url, timestamp |-> now]
      h1 == <<e>> \o h
  IN  SubSeq(h1, 1, IF Len(h1) < HistoryCap THEN Len(h1) ELSE HistoryCap)

\* ---- inputs of the popup
\* the tabs the popup is opened on: a product page, a page without a price,
\* a page whose DOM access throws
TabPages ==
  {p \in AmazonPages :
     /\ p.url = AmazonUrl /\ p.title1 = Some(<<" ", "T", "V", " ">>) /\ p.image = None
     /\ \/ p.throwsAt = "none" /\ p.whole = Some(<<"$", "1", ",", "2", "3", "4">>) /\ p.fraction = Some(<<"5", "6">>)
        \/ p.throwsAt = "none" /\ p.whole = None /\ p.fraction = None
        \/ p.throwsAt = "query" /\ p.whole = None /\ p.fraction = None}

\* what chrome.tabs.query resolves with: a tab, no tab, a tab without id
TabResults == {"tab", "none", "noid"}

\* the values saveApiKey may store
KeyInputs == {<<>>, <<"A", "I", "z", "a", "S", "y", "D">>}

\* an entry written by an earlier session of the popup; its strings are
\* shortened to one character each, no operation reads them
OldEntry(t) ==
  [title |-> <<"P">>, price |-> <<"2">>, image |-> <<>>, url |-> <<"u">>, timestamp |-> t]

\* the history an earlier session left in storage: n entries, most recent first
OldHistory(n) == [i \in 1..n |-> OldEntry(n + 1 - i)]

InitLens == {0, HistoryCap - 1}

\* an invocation of analyzeProduct: where it is suspended and its locals
NewRun == [pc |-> "awaitTab", product |-> Null, storeOk |-> TRUE, status |-> 0]

\* an invocation that has returned
DoneRun == [pc |-> "done", product |-> Null, storeOk |-> TRUE, status |-> 0]

\* the latest popup event returned from no invocation
NoEnd == [outcome |-> "none", err |-> <<>>]

\* a faulty showLoading: the button is switched, the indicator is not
showLoading_ButtonOnly(show) ==
  /\ loadingShown' = loadingShown
  /\ analyzeDisabled' = show

\* showLoading(show): loadingDiv.style.display and analyzeBtn.disabled (popup.js:350-354)
showLoading(show) ==
  /\ loadingShown' = show
  /\ analyzeDisabled' = show

\* a faulty catch block: showLoading(false) is left out
Catch_KeepsLoading(i, rs, out, msg) ==
  /\ currentState' = IF copy = 1 THEN "error" ELSE currentState
  /\ outputDiv' = CatchOutput(copy, out, msg)
  /\ UNCHANGED <<loadingShown, analyzeDisabled>>
  /\ runs' = [rs EXCEPT ![i] = DoneRun]
  /\ ended' = [outcome |-> "caught", err |-> msg]

\* the catch block of analyzeProduct for run i of rs (popup.js:193-212, 471-480)
Catch(i, rs, out, msg) ==
  \E m \in {msg} :
    /\ currentState' = IF copy = 1 THEN "error" ELSE currentState
    /\ outputDiv' = CatchOutput(copy, out, m)
    /\ showLoading(FALSE)
    /\ runs' = [rs EXCEPT ![i] = DoneRun]
    /\ ended' = [outcome |-> "caught", err |-> m]

\* the end of the try block for run i (popup.js:186-191, 467-470)
Finish(i, suggestions) ==
  /\ currentState' = IF copy = 1 THEN "results" ELSE currentState
  /\ \E s \in {suggestions} : outputDiv' = ResultsOutput(copy, outputDiv, runs[i].product[1], s)
  /\ showLoading(FALSE)
  /\ runs' = [runs EXCEPT ![i] = DoneRun]
  /\ ended' = [outcome |-> "results", err |-> <<>>]

\* a click on the analyze button, which a disabled button does not deliver:
\* analyzeProduct up to its first await (popup.js:153-166, 435-446)
AnalyzeClick ==
  /\ ~analyzeDisabled
  /\ Len(runs) < MaxRuns
  /\ LET i == Len(runs) + 1
         key == KeyCheck(copy, apiKey)
     IN  IF key # None
         THEN Catch(i, Append(runs, NewRun), <<>>, key[1])
         ELSE /\ currentState' = IF copy = 1 THEN "loading" ELSE currentState
              /\ showLoading(TRUE)
              /\ outputDiv' = <<>>
              /\ runs' = Append(runs, NewRun)
              /\ ended' = NoEnd
  /\ UNCHANGED <<copy, apiKey, isTrackingEnabled, history, storage, clock>>
  /\ UNCHANGED <<xvars, rvars, bg>>

\* chrome.tabs.query resolves (popup.js:166-170, 446-450)
TabReply(i, r) ==
  /\ runs[i].pc = "awaitTab"
  /\ CASE r = "none" -> Catch(i, runs, outputDiv, MsgTabUndefined)
       [] r = "noid" -> Catch(i, runs, outputDiv, MsgNoTab)
       [] OTHER -> /\ runs' = [runs EXCEPT ![i] = [@ EXCEPT !.pc = "awaitExtract"]]
                   /\ ended' = NoEnd
                   /\ UNCHANGED <<currentState, outputDiv, loadingShown, analyzeDisabled>>
  /\ UNCHANGED <<copy, apiKey, isTrackingEnabled, history, storage, clock>>
  /\ UNCHANGED <<xvars, rvars, bg>>

\* chrome.tabs.sendMessage rejects: the tab has no content script
ExtractRejected(i) ==
  /\ runs[i].pc = "awaitExtract"
  /\ Catch(i, runs, outputDiv, MsgNoReceiver)
  /\ UNCHANGED <<copy, apiKey, isTrackingEnabled, history, storage, clock>>
  /\ UNCHANGED <<xvars, rvars, bg>>

\* the AI call that follows the history step: callBackgroundAI sends
\* 'analyzeWithAI' (first copy), callGeminiAPI calls fetch (second copy)
StartAI(i, rs) ==
  /\ runs' = [rs EXCEPT ![i] = [@ EXCEPT !.pc = IF copy = 1 THEN "awaitAI" ELSE "awaitFetch"]]
  /\ ended' = NoEnd

\* the Extractor's response arrives (popup.js:170-184, 450-465)
ExtractReply(i, p) ==
  /\ runs[i].pc = "awaitExtract"
  /\ \E productData \in {extractProduct(p).val} :
     LET rs == [runs EXCEPT ![i] = [@ EXCEPT !.product = productData]]
     IN  IF productData = Null \/ productData[1].title = <<>>
         THEN /\ Catch(i, rs, outputDiv, IF copy = 1 THEN MsgNoProduct ELSE MsgNoProduct2)
              /\ UNCHANGED <<history, storage, clock>>
         ELSE IF isTrackingEnabled
         THEN /\ clock' = clock + 1
              /\ history' = AddToHistory(history, productData[1], clock + 1)
              /\ \E ok \in BOOLEAN :
                   /\ storage' = IF ok THEN [storage EXCEPT !.hist = history'] ELSE storage
                   /\ runs' = [rs EXCEPT ![i] = [@ EXCEPT !.pc = "awaitStore", !.storeOk = ok]]
              /\ ended' = NoEnd
              /\ UNCHANGED <<currentState, outputDiv, loadingShown, analyzeDisabled>>
         ELSE /\ StartAI(i, rs)
              /\ UNCHANGED <<history, storage, clock, currentState, outputDiv,
                             loadingShown, analyzeDisabled>>
  /\ UNCHANGED <<copy, apiKey, isTrackingEnabled>>
  /\ UNCHANGED <<xvars, rvars, bg>>

\* chrome.storage.local.set({ hist }) settles (popup.js:180-184, 461-465)
StoreReply(i) ==
  /\ runs[i].pc = "awaitStore"
  /\ IF runs[i].storeOk
     THEN /\ StartAI(i, runs)
          /\ UNCHANGED <<currentState, outputDiv, loadingShown, analyzeDisabled>>
     ELSE Catch(i, runs, outputDiv, MsgStorage)
  /\ UNCHANGED <<copy, apiKey, isTrackingEnabled, history, storage, clock>>
  /\ UNCHANGED <<xvars, rvars, bg>>

\* the callback of chrome.runtime.sendMessage runs (popup.js:184-191, 220-225):
\* either no listener was reached, or the worker ran handleAnalyze on what it
\* was handed and sent its response
AIReply(i, reachable, env) ==
  /\ copy = 1
  /\ runs[i].pc = "awaitAI"
  /\ \E r \in {IF ~reachable
                THEN callBackgroundAI(Some(MsgNoReceiver), None)
                ELSE callBackgroundAI(None, Some(Settle(handleAnalyze(env))))} :
       IF r.exc THEN Catch(i, runs, outputDiv, r.val) ELSE Finish(i, r.val)
  /\ UNCHANGED <<copy, apiKey, isTrackingEnabled, history, storage, clock>>
  /\ UNCHANGED <<xvars, rvars, bg>>

\* ---- callGeminiAPI of the second copy (popup.js:487-522)
GeminiFetchFails(i) ==
  /\ runs[i].pc = "awaitFetch"
  /\ Catch(i, runs, outputDiv, MsgFetchFailed)
  /\ UNCHANGED <<copy, apiKey, isTrackingEnabled, history, storage, clock>>
  /\ UNCHANGED <<xvars, rvars, bg>>

GeminiFetch(i, status) ==
  /\ runs[i].pc = "awaitFetch"
  /\ runs' = [runs EXCEPT ![i] = [@ EXCEPT !.status = status,
                !.pc = IF status \in 200..299 THEN "awaitJson" ELSE "awaitErrText"]]
  /\ UNCHANGED <<copy, apiKey, isTrackingEnabled, history, storage, clock,
                 currentState, outputDiv, loadingShown, analyzeDisabled>>
  /\ ended' = NoEnd
  /\ UNCHANGED <<xvars, rvars, bg>>

GeminiErrorText(i, text) ==
  /\ runs[i].pc = "awaitErrText"
  /\ Catch(i, runs, outputDiv, ApiError2(runs[i].status, text))
  /\ UNCHANGED <<copy, apiKey, isTrackingEnabled, history, storage, clock>>
  /\ UNCHANGED <<xvars, rvars, bg>>

GeminiJsonFails(i) ==
  /\ runs[i].pc = "awaitJson"
  /\ Catch(i, runs, outputDiv, MsgJsonParse)
  /\ UNCHANGED <<copy, apiKey, isTrackingEnabled, history, storage, clock>>
  /\ UNCHANGED <<xvars, rvars, bg>>

GeminiJson(i, data) ==
  /\ runs[i].pc = "awaitJson"
  /\ \E text \in {CandidateText(data)} :
       IF text = <<>>
       THEN Catch(i, runs, outputDiv, MsgUnexpected2)
       ELSE Finish(i, Trim(text))
  /\ UNCHANGED <<copy, apiKey, isTrackingEnabled, history, storage, clock>>
  /\ UNCHANGED <<xvars, rvars, bg>>

\* ---- the other handlers
\* keydown: Escape resets unless the popup is in its initial state; the second
\* copy registers no keydown handler (popup.js:122-126, 144-148)
EscapeKey ==
  /\ copy = 1
  /\ currentState # "initial"
  /\ currentState' = "initial"
  /\ outputDiv' = <<>>
  /\ showLoading(FALSE)
  /\ UNCHANGED <<copy, apiKey, isTrackingEnabled, history, storage, clock, runs>>
  /\ ended' = NoEnd
  /\ UNCHANGED <<xvars, rvars, bg>>

\* the tracking checkbox changes (popup.js:75-85, 423-430)
toggleTracking ==
  /\ isTrackingEnabled' = ~isTrackingEnabled
  /\ storage' = [storage EXCEPT !.tracking = ~isTrackingEnabled]
  /\ outputDiv' =
       IF ~isTrackingEnabled
       THEN showMessage(outputDiv, IF copy = 1 THEN MsgTrackingOn ELSE MsgTrackingOn2)
       ELSE IF copy = 1 THEN showMessage(outputDiv, MsgTrackingOff) ELSE outputDiv
  /\ UNCHANGED <<copy, apiKey, history, clock, runs, currentState, loadingShown,
                 analyzeDisabled>>
  /\ ended' = NoEnd
  /\ UNCHANGED <<xvars, rvars, bg>>

\* a click on the history button, shown only while tracking is enabled
\* (popup.js:315-334, 551-565)
showHistory ==
  /\ isTrackingEnabled
  /\ outputDiv' =
       IF history = <<>>
       THEN (IF copy = 1 THEN showMessage(outputDiv, MsgNoHistory)
             ELSE showError(outputDiv, MsgNoHistory2))
       ELSE <<Block("history", <<>>, <<>>,
                    [k \in 1..(IF Len(history) < 10 THEN Len(history) ELSE 10) |->
                       history[k].title], <<>>)>>
  /\ UNCHANGED <<copy, apiKey, isTrackingEnabled, history, storage, clock, runs,
                 currentState, loadingShown, analyzeDisabled>>
  /\ ended' = NoEnd
  /\ UNCHANGED <<xvars, rvars, bg>>

\* saveApiKey() assigns GEMINI_API_KEY (popup.js:271-276); first copy only
saveApiKey(val) ==
  /\ copy = 1
  /\ apiKey # Some(val)
  /\ apiKey' = Some(val)
  /\ outputDiv' = showMessage(outputDiv, IF val # <<>> THEN <<"A", "P", "I", " ", "k", "e", "y", " ", "s", "a", "v", "e", "d", " ", "l", "o", "c", "a", "l", "l", "y", ".">>
                                         ELSE <<"A", "P", "I", " ", "k", "e", "y", " ", "c", "l", "e", "a", "r", "e", "d", ".">>)
  /\ UNCHANGED <<copy, isTrackingEnabled, history, storage, clock, runs,
                 currentState, loadingShown, analyzeDisabled>>
  /\ ended' = NoEnd
  /\ UNCHANGED <<xvars, rvars, bg>>


(***************************************************************************)
(* Specifications                                                          *)
(***************************************************************************)
vars == <<xvars, rvars, pvars, bg>>

\* the tab of the popup specifications
IdlePage == CHOOSE p \in TabPages : p.throwsAt = "none" /\ p.whole # None

\* the content script answering the popup's messages, on every page
InitX ==
  /\ page \in Pages
  /\ xmsg = None /\ xpc = "idle" /\ xresp = None
  /\ rlines = <<<<>>>> /\ rcopy = 1 /\ rpc = "ready" /\ ritems = <<>>
  /\ copy = 1 /\ apiKey = None /\ isTrackingEnabled = FALSE /\ history = <<>>
  /\ storage = [tracking |-> FALSE, hist |-> <<>>] /\ clock = 0
  /\ currentState = "initial" /\ loadingShown = FALSE /\ analyzeDisabled = FALSE
  /\ outputDiv = <<>> /\ runs = <<>> /\ ended = NoEnd
  /\ bg = <<>>

NextExtractor ==
  \/ \E a \in XActions : XSend(a)
  \/ XListener

SpecExtractor == InitX /\ [][NextExtractor]_vars

\* renderSuggestions, both copies, on every text of at most MaxLines lines
InitR ==
  /\ rlines \in LineLists
  /\ rcopy \in {1, 2}
  /\ rpc = "ready" /\ ritems = <<>>
  /\ page = IdlePage /\ xmsg = None /\ xpc = "idle" /\ xresp = None
  /\ copy = 1 /\ apiKey = None /\ isTrackingEnabled = FALSE /\ history = <<>>
  /\ storage = [tracking |-> FALSE, hist |-> <<>>] /\ clock = 0
  /\ currentState = "initial" /\ loadingShown = FALSE /\ analyzeDisabled = FALSE
  /\ outputDiv = <<>> /\ runs = <<>> /\ ended = NoEnd
  /\ bg = <<>>

NextRender == Render

SpecRender == InitR /\ [][NextRender]_vars

\* the analyzeWithAI exchanges between the popup and the background worker
InitW ==
  /\ bg = <<>>
  /\ page = IdlePage /\ xmsg = None /\ xpc = "idle" /\ xresp = None
  /\ rlines = <<<<>>>> /\ rcopy = 1 /\ rpc = "ready" /\ ritems = <<>>
  /\ copy = 1 /\ apiKey = None /\ isTrackingEnabled = FALSE /\ history = <<>>
  /\ storage = [tracking |-> FALSE, hist |-> <<>>] /\ clock = 0
  /\ currentState = "initial" /\ loadingShown = FALSE /\ analyzeDisabled = FALSE
  /\ outputDiv = <<>> /\ runs = <<>> /\ ended = NoEnd

NextWorker ==
  \/ SendRequest
  \/ \E i \in 1..Len(bg) :
       \/ BgUnreachable(i)
       \/ BgListener(i)
       \/ \E le \in BOOLEAN, tok \in Tokens : BgToken(i, le, tok)
       \/ BgFetchFails(i)
       \/ \E s \in HttpStatuses : BgFetch(i, s)
       \/ \E t \in ErrorBodies : BgErrorText(i, t)
       \/ BgJsonFails(i)
       \/ \E d \in JsonBodies : BgJson(i, d)
       \/ BgCallback(i)

SpecWorker == InitW /\ [][NextWorker]_vars

\* what the browser and the endpoint do for request i once the listener has
\* taken it: the getAuthToken callback, the settling of fetch, of resp.text()
\* and of resp.json()
WorkerStep(i) ==
  /\ i <= Len(bg)
  /\ \/ \E le \in BOOLEAN, tok \in Tokens : BgToken(i, le, tok)
     \/ BgFetchFails(i)
     \/ \E s \in HttpStatuses : BgFetch(i, s)
     \/ \E t \in ErrorBodies : BgErrorText(i, t)
     \/ BgJsonFails(i)
     \/ \E d \in JsonBodies : BgJson(i, d)

\* the worker when every callback is called and every promise it awaits settles
SpecWorkerLive == SpecWorker /\ \A i \in 1..MaxRequests : WF_vars(WorkerStep(i))

\* the popup: init() (popup.js:27-70, 400-418) has loaded tracking and hist
\* from storage
Init ==
  /\ copy \in {1, 2}
  /\ apiKey = None
  /\ \E n \in InitLens, tr \in BOOLEAN :
       /\ storage = [tracking |-> tr, hist |-> OldHistory(n)]
       /\ isTrackingEnabled = tr
       /\ history = OldHistory(n)
       /\ clock = n
  /\ currentState = "initial" /\ loadingShown = FALSE /\ analyzeDisabled = FALSE
  /\ outputDiv = <<>> /\ runs = <<>> /\ ended = NoEnd
  /\ page = IdlePage /\ xmsg = None /\ xpc = "idle" /\ xresp = None
  /\ rlines = <<<<>>>> /\ rcopy = 1 /\ rpc = "ready" /\ ritems = <<>>
  /\ bg = <<>>

Next ==
  \/ AnalyzeClick
  \/ EscapeKey
  \/ toggleTracking
  \/ showHistory
  \/ \E v \in KeyInputs : saveApiKey(v)
  \/ \E i \in 1..Len(runs) :
       \/ \E r \in TabResults : TabReply(i, r)
       \/ ExtractRejected(i)
       \/ \E p \in TabPages : ExtractReply(i, p)
       \/ StoreReply(i)
       \/ \E env \in WorkerEnvs : AIReply(i, TRUE, env)
       \/ AIReply(i, FALSE, NoEnv)
       \/ GeminiFetchFails(i)
       \/ \E s \in HttpStatuses : GeminiFetch(i, s)
       \/ \E t \in ErrorBodies : GeminiErrorText(i, t)
       \/ GeminiJsonFails(i)
       \/ \E d \in JsonBodies : GeminiJson(i, d)

Spec == Init /\ [][Next]_vars

\* the await at which invocation i of analyzeProduct is suspended settles:
\* the message it sent is answered or rejected (popup.js:166-184, 447-465,
\* 218-227, 487-522)
AwaitSettles(i) ==
  /\ i <= Len(runs)
  /\ \/ \E r \in TabResults : TabReply(i, r)
     \/ ExtractRejected(i)
     \/ \E p \in TabPages : ExtractReply(i, p)
     \/ StoreReply(i)
     \/ \E env \in WorkerEnvs : AIReply(i, TRUE, env)
     \/ AIReply(i, FALSE, NoEnv)
     \/ GeminiFetchFails(i)
     \/ \E s \in HttpStatuses : GeminiFetch(i, s)
     \/ \E t \in ErrorBodies : GeminiErrorText(i, t)
     \/ GeminiJsonFails(i)
     \/ \E d \in JsonBodies : GeminiJson(i, d)

\* the popup when every message it sends is eventually answered or rejected;
\* user events (clicks, Escape, the checkbox) are under no obligation
SpecLive == Spec /\ \A i \in 1..MaxRuns : WF_vars(AwaitSettles(i))

(***************************************************************************)
(* Properties of the Extractor (SpecExtractor)                             *)
(***************************************************************************)
\* the product the listener has sent: Null or Some(record)
Sent == xresp[1]

\* C1: extractProduct never returns a partially filled record.  For every
\* page whose DOM can be read, the result is null exactly when the title is
\* empty or the price is empty after normalization; otherwise it is a record
\* holding that title and that price, both non-empty.  The pages cover the
\* Amazon, eBay, Walmart and generic strategies.
C1_NoPartialRecord ==
  xpc = "responded" =>
    /\ Sent # Null => Sent[1].title # <<>> /\ Sent[1].price # <<>>
    /\ ~DomThrows(page) =>
         /\ Sent = Null <=> (PageTitle(page) = <<>> \/ CleanPrice(PagePrice(page)) = <<>>)
         /\ Sent # Null =>
              /\ Sent[1].title = PageTitle(page)
              /\ Sent[1].price = CleanPrice(PagePrice(page))

\* a page with a title and a price text that holds no digit: the price is
\* empty after normalization and the result is null
C1_Witness ==
  /\ xpc = "responded" /\ ~DomThrows(page)
  /\ PageTitle(page) # <<>> /\ PagePrice(page) = <<"F", "r", "e", "e">>
  /\ Sent = Null

\* C7: price normalization removes every character that is not a digit or a
\* period and keeps the others in order: the price of a returned record holds
\* only digits and periods, and "$1,234.56" becomes "1234.56".
C7_PriceNormalized ==
  xpc = "responded" /\ Sent # Null =>
    /\ \A k \in 1..Len(Sent[1].price) : Sent[1].price[k] \in Digits \cup {"."}
    /\ Sent[1].price = SelectSeq(PagePrice(page), LAMBDA c : c \in Digits \cup {"."})
    /\ PagePrice(page) = <<"$", "1", ",", "2", "3", "4", ".", "5", "6">> => Sent[1].price = <<"1", "2", "3", "4", ".", "5", "6">>

\* "$1,234.56" was read from the page and "1234.56" was returned
C7_Witness ==
  /\ xpc = "responded" /\ Sent # Null
  /\ PagePrice(page) = <<"$", "1", ",", "2", "3", "4", ".", "5", "6">>
  /\ Sent[1].price = <<"1", "2", "3", "4", ".", "5", "6">>

\* C8: the Extractor never propagates an error.  When a DOM access of
\* extractProduct throws (the text scan of findPrice included) the result is
\* null, and the listener sends that null as the response to the
\* extractProduct request: every extractProduct request the listener has
\* handled was answered.
C8_NeverPropagates ==
  /\ xpc # "crashed"
  /\ xmsg = Some("extractProduct") /\ xpc # "pending" => xpc = "responded" /\ xresp # None
  /\ xpc = "responded" /\ DomThrows(page) => xresp = Some(Null)

\* the text scan of findPrice threw on a generic page and null was sent
C8_Witness ==
  /\ xpc = "responded" /\ xresp = Some(Null)
  /\ page.throwsAt = "walker" /\ Strategy(page.url) = "generic"

(***************************************************************************)
(* Properties of suggestion rendering (SpecRender)                         *)
(***************************************************************************)
\* the line is not blank and looks like a list item or is long: its trimmed
\* text starts with digits and a period or with one of - U+2022 *, or the
\* line holds more than 10 characters
ListItemOrLong(l) ==
  /\ \E k \in 1..Len(l) : ~IsSpace(l[k])
  /\ \/ StartsNumbered(Trim(l))
     \/ Trim(l)[1] \in {"-", "U+2022", "*"}
     \/ Len(l) > 10

\* the line is not blank and its first character is not "-"
NotBlankNotDash(l) ==
  /\ \E k \in 1..Len(l) : ~IsSpace(l[k])
  /\ l[1] # "-"

\* C6: renderSuggestions splits the text on newlines and keeps lines in
\* their order.  The first copy keeps exactly the non-blank lines that start
\* with digits and a period, start with a bullet glyph, or are longer than 10
\* characters; the second copy keeps exactly the non-blank lines that do not
\* start with "-".  "1. Try X\n2. Try Y" yields its two lines in both.
C6_Segmentation ==
  rpc = "done" =>
    /\ rcopy = 1 => ritems = SelectSeq(rlines, ListItemOrLong)
    /\ rcopy = 2 => ritems = SelectSeq(rlines, NotBlankNotDash)
    /\ rlines = <<<<"1", ".", " ", "T", "r", "y", " ", "X">>, <<"2", ".", " ", "T", "r", "y", " ", "Y">>>> => ritems = rlines

\* the second copy drops the bullet line "- a" and keeps the short line "abc"
C6_Witness ==
  /\ rpc = "done" /\ rcopy = 2
  /\ rlines = <<<<"-", " ", "a">>, <<"a", "b", "c">>>>
  /\ ritems = <<<<"a", "b", "c">>>>

\* C6 as stated: both copies keep exactly the non-blank lines that start with
\* digits and a period, start with a bullet glyph, or are longer than 10
\* characters
C6_AsStated ==
  rpc = "done" => ritems = SelectSeq(rlines, ListItemOrLong)

(***************************************************************************)
(* Properties of the background worker (SpecWorker, SpecWorkerLive)        *)
(***************************************************************************)
\* request i has been answered by the worker
Answered(i) == bg[i].pc \in {"responded", "delivered"} /\ bg[i].responses # <<>>

\* handleAnalyze of request i is past its token lookup
PastLookup(i) ==
  bg[i].pc \in {"fetching", "readingError", "readingJson"} \/ Answered(i)

\* the stepwise worker answers what handleAnalyze, as one function of what it
\* was handed, settles with
StepsAgree ==
  \A i \in 1..Len(bg) :
    Answered(i) => bg[i].responses = <<Settle(handleAnalyze(bg[i].env))>>

\* C3: when the non-interactive token lookup yields no token (lastError is
\* set, or the token is missing or empty), handleAnalyze fails with the
\* 'Not signed in' error and no fetch is issued for that request.
C3_NoTokenNoFetch ==
  \A i \in 1..Len(bg) :
    (/\ PastLookup(i)
     /\ (bg[i].env.lastError \/ bg[i].env.token \in {None, Some(<<>>)}))
    => /\ bg[i].fetches = 0
       /\ bg[i].responses = <<[suggestions |-> None, error |-> Some(MsgNotSignedIn)]>>

\* a lookup called back without a token and the request was answered with
\* the 'Not signed in' error, no fetch issued
C3_Witness ==
  \E i \in 1..Len(bg) :
    /\ bg[i].pc = "responded"
    /\ ~bg[i].env.lastError /\ bg[i].env.token = None
    /\ bg[i].fetches = 0
    /\ bg[i].responses[1].error = Some(MsgNotSignedIn)

\* at most one response per request; a response holds exactly one of the
\* fields suggestions and error; the promise of callBackgroundAI resolves
\* with the suggestions or rejects with the error message
C10_Safe ==
  \A i \in 1..Len(bg) :
    /\ Len(bg[i].responses) <= 1
    /\ bg[i].pc = "responded" => Len(bg[i].responses) = 1
    /\ bg[i].responses # <<>> =>
         LET r == bg[i].responses[1]
         IN  /\ (r.suggestions = None) # (r.error = None)
             /\ bg[i].pc = "delivered" =>
                  /\ r.suggestions # None => bg[i].cb = Some(Returned(r.suggestions[1]))
                  /\ r.error # None => bg[i].cb = Some(Rejected(r.error[1]))

\* C10: every analyzeWithAI request the listener has taken receives exactly
\* one response, {suggestions: text} or {error: message}, never both and
\* never neither (eventually one, provided the callbacks and promises
\* handleAnalyze awaits settle; never a second one); callBackgroundAI
\* resolves with the suggestions in the first case and rejects in the second.
C10_ExactlyOneResponse ==
  /\ []C10_Safe
  /\ \A i \in 1..MaxRequests :
       (i <= Len(bg) /\ bg[i].pc = "getToken")
         ~> (i <= Len(bg) /\ Answered(i) /\ Len(bg[i].responses) = 1)

\* one request was answered with suggestions and its promise resolved,
\* another was answered with an error and its promise rejected
C10_Witness ==
  \E i, j \in 1..Len(bg) :
    /\ bg[i].pc = "delivered" /\ bg[i].responses # <<>>
    /\ bg[i].responses[1].suggestions # None /\ ~bg[i].cb[1].exc
    /\ bg[j].pc = "delivered" /\ bg[j].responses # <<>>
    /\ bg[j].responses[1].error # None /\ bg[j].cb[1].exc

(***************************************************************************)
(* Properties of the popup (Spec)                                          *)
(***************************************************************************)
\* C2: after any sequence of analyzeProduct runs the history holds at most
\* 50 entries, most recent first, and an insertion into a full history
\* drops the oldest entry: with every insertion stamped by the next value of
\* the clock, the stamps of the history decrease from the latest stamp at
\* the front down to the stamp that lies as many insertions back as the
\* history is long.
C2_HistoryCapped ==
  /\ Len(history) <= HistoryCap
  /\ \A k \in 1..(Len(history) - 1) : history[k].timestamp > history[k + 1].timestamp
  /\ Len(history) = (IF clock < HistoryCap THEN clock ELSE HistoryCap)
  /\ history # <<>> =>
       /\ history[1].timestamp = clock
       /\ history[Len(history)].timestamp = clock + 1 - Len(history)

\* a 51st entry was inserted: the history still holds 50 entries, the new
\* one at the front, and its last entry is the second oldest (stamp 2): the
\* oldest (stamp 1) was dropped
C2_Witness ==
  /\ clock = HistoryCap + 1
  /\ Len(history) = HistoryCap
  /\ history[1].timestamp = HistoryCap + 1 /\ history[1].title = <<"T", "V">>
  /\ history[HistoryCap].timestamp = 2

\* outputDiv holds a product block of that title followed, anywhere later,
\* by a suggestions block with items
ShowsFallback(title) ==
  \E j, k \in 1..Len(outputDiv) :
    /\ j < k
    /\ outputDiv[j].kind = "product" /\ outputDiv[j].title = title
    /\ outputDiv[k].kind = "suggestions" /\ outputDiv[k].items # <<>>

\* C4 as stated, its popup part: when analyzeProduct has caught the error of
\* a non-2xx response ('API error <status>...'), the fallback product and
\* the fallback suggestions are rendered.
C4_FallbackRendered ==
  (ended.outcome = "caught" /\ Includes(ended.err, <<"A", "P", "I", " ", "e", "r", "r", "o", "r">>)) =>
    ShowsFallback(IF copy = 1 THEN DemoProduct.title ELSE DemoProduct2.title)

\* C5: when the Suggestion Service fails with 'Not signed in...' (no token)
\* or with 'Unexpected API response...' (no candidate text), analyzeProduct
\* takes the error branch of its catch block, not the fallback branch: the
\* output is the single error block 'Analysis failed: <message>', loading is
\* hidden, the button is enabled and the first copy is in state 'error'.
C5_AuthAndMalformedShowError ==
  (ended.outcome = "caught" /\ ended.err \in {MsgNotSignedIn, MsgUnexpected, MsgUnexpected2}) =>
    /\ outputDiv = <<Block("error", <<>>, <<>>, <<>>, <<"A", "n", "a", "l", "y", "s", "i", "s", " ", "f", "a", "i", "l", "e", "d", ":", " ">> \o ended.err)>>
    /\ ~loadingShown /\ ~analyzeDisabled
    /\ copy = 1 => currentState = "error"

\* the worker answered 'Not signed in...' and the popup shows it as an error
C5_Witness ==
  /\ copy = 1 /\ ended.outcome = "caught" /\ ended.err = MsgNotSignedIn
  /\ Len(outputDiv) = 1 /\ outputDiv[1].kind = "error"
  /\ currentState = "error"

\* C5 as stated: on 'Not signed in...' or 'Unexpected API response...' the
\* demo product and the demo suggestions are rendered
C5_AsStated ==
  (ended.outcome = "caught" /\ ended.err \in {MsgNotSignedIn, MsgUnexpected, MsgUnexpected2}) =>
    ShowsFallback(IF copy = 1 THEN DemoProduct.title ELSE DemoProduct2.title)

\* the invocations of analyzeProduct that have not returned
InFlight == {i \in 1..Len(runs) : runs[i].pc # "done"}

\* C9 as stated: while an invocation of analyzeProduct awaits the response of
\* the Extractor or of the Suggestion Service, no other invocation is in
\* flight.
C9_AtMostOneInFlight ==
  \A i \in InFlight :
    runs[i].pc \in {"awaitExtract", "awaitAI", "awaitFetch", "awaitErrText", "awaitJson"}
      => InFlight = {i}

\* the step is the one in which invocation i receives the Extractor's reply
\* (or the rejection of the message)
ExtractReturns(i) == runs[i].pc = "awaitExtract" /\ runs'[i].pc # "awaitExtract"

\* that step has logged the product the invocation holds: one entry, the
\* record and the stamp, is put in front of the entries kept
LogsItsProduct(i) ==
  LET d == runs'[i].product[1]
      kept == IF Len(history) < HistoryCap THEN Len(history) ELSE HistoryCap - 1
  IN  /\ runs'[i].product # Null
      /\ history' = <<[title |-> d.title, price |-> d.price, image |-> d.image,
                       url |-> d.url, timestamp |-> clock']>> \o SubSeq(history, 1, kept)
      /\ clock' > clock
      /\ storage'.hist \in {storage.hist, history'}

\* C11: a run of analyzeProduct adds one entry to the front of the history
\* (the extracted record and a timestamp) exactly when, at the return of the
\* extraction, tracking is enabled and the record is valid (the invocation
\* goes on past the check); otherwise that step leaves the history and the
\* persisted hist unchanged.  No other step of the popup changes them: the
\* entry is added before the Suggestion Service is called and stays when the
\* suggestion call fails.
C11_OneEntryPerValidTrackedRun ==
  [][/\ \A i \in 1..Len(runs) :
          ExtractReturns(i) =>
            IF isTrackingEnabled /\ runs'[i].pc # "done"
            THEN LogsItsProduct(i) /\ runs'[i].pc = "awaitStore"
            ELSE history' = history /\ storage'.hist = storage.hist
     /\ (\A i \in 1..Len(runs) : ~ExtractReturns(i)) =>
          history' = history /\ storage'.hist = storage.hist]_vars

\* an entry was logged and persisted, then the suggestion call failed with
\* 'Not signed in...': the entry is still the only one
C11_Witness ==
  /\ copy = 1 /\ ended.outcome = "caught" /\ ended.err = MsgNotSignedIn
  /\ Len(history) = 1 /\ history[1].title = <<"T", "V">> /\ history[1].price = <<"1", "2", "3", "4", ".", "5", "6">>
  /\ storage.hist = history

\* C12: in the first copy of the popup (the one with currentState), between
\* event handlers the analyze button is disabled exactly when currentState is
\* 'loading', and the loading indicator is shown exactly when currentState is
\* 'loading', after any sequence of analyze clicks, Escape presses and
\* completions, overlapping analyses included.
C12_LoadingIffDisabled ==
  copy = 1 =>
    /\ analyzeDisabled <=> currentState = "loading"
    /\ loadingShown <=> currentState = "loading"

\* overlapping analyses: after Escape and a second click, one invocation has
\* finished with results while the other is still awaiting; the button is
\* enabled and the indicator hidden
C12_Witness ==
  /\ copy = 1 /\ Len(runs) = 2 /\ Cardinality(InFlight) = 1
  /\ currentState = "results" /\ ~analyzeDisabled /\ ~loadingShown

\* the same configuration while the second analysis is loading
C12_WitnessLoading ==
  /\ copy = 1 /\ Cardinality(InFlight) = 2
  /\ currentState = "loading" /\ analyzeDisabled /\ loadingShown

\* the state right after an invocation of analyzeProduct returned: the loading
\* indicator is hidden, the button enabled and (first copy) currentState is
\* 'results' after the try block and 'error' after the catch block
FinishedProperly ==
  ended.outcome # "none" =>
    /\ ~loadingShown /\ ~analyzeDisabled
    /\ copy = 1 => currentState = (IF ended.outcome = "results" THEN "results" ELSE "error")

\* invocation i of analyzeProduct has not been started or has returned; once
\* started an invocation stays started and once returned it stays returned, so
\* "infinitely often" below says that a started invocation eventually returns
NotPending(i) == i > Len(runs) \/ runs[i].pc = "done"

\* C13: provided every message the popup sends (tab query, extractProduct,
\* storage write, analyzeWithAI or the fetch of the second copy) is eventually
\* answered or rejected, every started invocation of analyzeProduct eventually
\* returns, it returns with currentState 'results' or 'error' and the loading
\* indicator hidden, and the popup never stays loading forever.  There is no
\* timeout: a started invocation moves only when the message it awaits is
\* answered or rejected, so without the proviso it never returns.
C13_EveryInvocationFinishes ==
  /\ []FinishedProperly
  /\ \A i \in 1..MaxRuns : []<>NotPending(i)
  /\ []<>(~loadingShown)
  /\ [][\A i \in 1..Len(runs) : runs'[i] # runs[i] => AwaitSettles(i)]_vars

\* an invocation went through all four awaits of the first copy (tab query,
\* extractProduct, storage write, analyzeWithAI) and returned with results
C13_Witness ==
  /\ copy = 1 /\ isTrackingEnabled /\ ended.outcome = "results"
  /\ currentState = "results" /\ ~loadingShown
  /\ Len(history) = 1 /\ storage.hist = history
  /\ InFlight = {}

=============================================================================
